---- MODULE Spec2Model ----
(***************************************************************************)
(* A model of helper_functions.py of the cartography system: the building  *)
(* placement solver (place_buildings), the road topology generator         *)
(* (custom_delaunay, generate_path_tree), the cost-weighted pathfinder     *)
(* (astar) and the per-edge path generation (generate_path_points).        *)
(*                                                                         *)
(* Real numbers are modelled exactly: Euclidean lengths are compared by    *)
(* their squares, the circumcircle test by integer determinants, and path  *)
(* costs in thousandths (1.414 is 1414).  Float rounding is not modelled.  *)
(***************************************************************************)
EXTENDS Integers, Sequences, FiniteSets, TLC

VARIABLES
    \* place_buildings
    place_pc,           \* "idle" | "loop" | "done" | "error"
    blueprints,         \* the blueprints argument (a sequence of records)
    amounts,            \* the amounts argument (name -> count)
    zone_masks,         \* the masks argument (zone name -> mask)
    buildings_to_place, \* the expanded queue
    bidx,               \* number of queue entries the placement loop has processed
    placed_buildings,   \* the list being returned
    building_mask,      \* the occupancy mask being returned
    \* generate_path_tree / generate_path_points
    road_pc,            \* "idle" | "tree" | "edges" | "done" | "error"
    buildings,          \* the buildings argument (a sequence of records)
    max_length,         \* the max_length / max_distance argument (NoMax for None)
    centers,            \* the centers array of generate_path_tree (mutable)
    paths,              \* the list generate_path_tree returns, as the set of its edges
                        \* {u, v}: an entry is a pair of rows of centers (views)
    occupancy,          \* masks_and_cost_multipliers['buildings'][0]
    water_mask,         \* masks_and_cost_multipliers['water'][0]
    eidx,               \* number of tree edges generate_path_points has processed
    handed,             \* per processed edge, the endpoints handed to astar
    path_points,        \* the list of paths generate_path_points returns
    bridge_points,      \* the list of water points generate_path_points returns
    \* astar
    astar_pc,           \* "idle" | "search" | "done"
    start, goal,        \* the endpoints
    cost_map,           \* the precomputed cost map
    queue,              \* the PriorityQueue: a set of <<priority, x, y>>
    costs,              \* cost from start to each visited position
    came_from,          \* predecessor of each visited position
    popped,             \* the positions popped so far, in order (history)
    result              \* the returned path, or None

placeVars == <<place_pc, blueprints, amounts, zone_masks, buildings_to_place, bidx,
               placed_buildings, building_mask>>
roadVars  == <<road_pc, buildings, max_length, centers, paths, occupancy, water_mask,
               eidx, handed, path_points, bridge_points>>
astarVars == <<astar_pc, start, goal, cost_map, queue, costs, came_from, popped, result>>
vars == <<placeVars, roadVars, astarVars>>

None == <<"None">>

RECURSIVE SumFn(_, _)
SumFn(f, S) ==
    IF S = {} THEN 0
    ELSE LET e == CHOOSE e \in S : TRUE IN f[e] + SumFn(f, S \ {e})

Abs(n) == IF n < 0 THEN -n ELSE n
Min2(a, b) == IF a <= b THEN a ELSE b

----------------------------------------------------------------------------
(* Placement solver                                                        *)

\* Raster extent of the placement fixtures (mask.shape = (PlaceRows, PlaceCols)).
PlaceCols == 14
PlaceRows == 3
\* Largest requested count per blueprint.
MaxAmount == 2

PlaceCells == (0 .. PlaceRows - 1) \X (0 .. PlaceCols - 1)   \* <<y, x>>, as np.argwhere

min_distance == 10

\* __plot_overlap__ with the clearance dropped from the x axis (mutant).
PlotOverlapNoMarginX(rect1, rect2, md) ==
    ~ ( \/ rect1[1] + rect1[3] <= rect2[1]
        \/ rect2[1] + rect2[3] <= rect1[1]
        \/ rect1[2] + rect1[4] + md <= rect2[2]
        \/ rect2[2] + rect2[4] + md <= rect1[2] )

\* rect = <<x, y, w, h>>
PlotOverlap(rect1, rect2, md) ==
    ~ ( \/ rect1[1] + rect1[3] + md <= rect2[1]
        \/ rect2[1] + rect2[3] + md <= rect1[1]
        \/ rect1[2] + rect1[4] + md <= rect2[2]
        \/ rect2[2] + rect2[4] + md <= rect1[2] )

\* cv2.moments: m00, m10 (x-weighted), m01 (y-weighted); int() truncates.
get_mask_centroid(mask) ==
    LET m00 == SumFn(mask, PlaceCells)
        m10 == SumFn([c \in PlaceCells |-> c[2] * mask[c]], PlaceCells)
        m01 == SumFn([c \in PlaceCells |-> c[1] * mask[c]], PlaceCells)
    IN  IF m00 # 0 THEN <<m10 \div m00, m01 \div m00>> ELSE None

\* np.argwhere(mask > 0): the occupied pixels as <<y, x>> rows.
ArgWhere(mask) == {c \in PlaceCells : mask[c] > 0}

\* The square of the sort key of line 103: x[0] is the row y, x[1] the column x.
SortKeySq(c, centroid) ==
    (c[1] - centroid[1]) * (c[1] - centroid[1]) + (c[2] - centroid[2]) * (c[2] - centroid[2])

\* sorted() is stable over argwhere's row-major order.
SortsBefore(c1, c2, centroid) ==
    LET k1 == SortKeySq(c1, centroid)
        k2 == SortKeySq(c2, centroid)
    IN  \/ k1 < k2
        \/ k1 = k2 /\ (c1[1] < c2[1] \/ (c1[1] = c2[1] /\ c1[2] < c2[2]))

\* Lines 107-108: the footprint fits the raster and covers only mask pixels.
FitsMask(c, dimensions, mask) ==
    /\ c[2] + dimensions[1] <= PlaceCols
    /\ c[1] + dimensions[2] <= PlaceRows
    /\ \A yy \in c[1] .. c[1] + dimensions[2] - 1 :
         \A xx \in c[2] .. c[2] + dimensions[1] - 1 : mask[<<yy, xx>>] > 0

\* Line 113.
NoCollision(new_rect, nametag, placed) ==
    \A k \in 1 .. Len(placed) : ~PlotOverlap(new_rect, placed[k].rect, min_distance)

Feasible(c, building, mask, placed) ==
    /\ FitsMask(c, building.size, mask)
    /\ NoCollision(<<c[2], c[1], building.size[1], building.size[2]>>, building.name, placed)

\* Evaluating the sort key for every pixel whatever the list holds (mutant):
\* a None centroid then always raises.
KeyRaisesEager(mask) == get_mask_centroid(mask) = None

\* The key lambda subscripts centroid; it runs once per element of argwhere.
KeyRaises(mask) == get_mask_centroid(mask) = None /\ ArgWhere(mask) # {}

\* One iteration of the loop of lines 93-116, as <<placed_buildings, building_mask>>.
PlaceOne(building, masks, placed, bmask) ==
    LET mask == masks[building.location]
        centroid == get_mask_centroid(mask)
        ok == {c \in ArgWhere(mask) : Feasible(c, building, mask, placed)}
    IN  IF ok = {} THEN <<placed, bmask>>
        ELSE LET c == CHOOSE c \in ok : \A d \in ok \ {c} : SortsBefore(c, d, centroid)
                 new_rect == <<c[2], c[1], building.size[1], building.size[2]>>
             IN  << Append(placed, [nametag |-> building.name, rect |-> new_rect]),
                    [p \in PlaceCells |->
                        IF /\ p[1] >= c[1] /\ p[1] < c[1] + building.size[2]
                           /\ p[2] >= c[2] /\ p[2] < c[2] + building.size[1]
                        THEN 1 ELSE bmask[p]] >>

\* Lines 84-88.
RECURSIVE Repeat(_, _)
Repeat(b, n) == IF n = 0 THEN <<>> ELSE <<b>> \o Repeat(b, n - 1)

RECURSIVE Expand(_, _)
Expand(bps, amts) ==
    IF bps = <<>> THEN <<>>
    ELSE Repeat(Head(bps), amts[Head(bps).name]) \o Expand(Tail(bps), amts)

\* Fixture masks: axis-aligned blocks of ones, and the empty mask.
Block(x0, x1, y0, y1) ==
    [c \in PlaceCells |-> IF c[2] >= x0 /\ c[2] <= x1 /\ c[1] >= y0 /\ c[1] <= y1 THEN 1 ELSE 0]

EmptyMask == [c \in PlaceCells |-> 0]

FixtureMasks ==
    { EmptyMask,
      Block(0, PlaceCols - 1, 0, PlaceRows - 1),
      Block(0, PlaceCols - 1, 0, 0),
      Block(0, 1, 0, PlaceRows - 1),
      Block(PlaceCols - 3, PlaceCols - 1, 1, PlaceRows - 1) }

Catalog ==
    << [name |-> "hall",  size |-> <<2, 1>>, location |-> "zero"],
       [name |-> "hut",   size |-> <<1, 1>>, location |-> "land"],
       [name |-> "tower", size |-> <<1, 2>>, location |-> "land"] >>

CatalogNames == {Catalog[k].name : k \in 1 .. Len(Catalog)}

InitPlaceIdle ==
    /\ place_pc = "idle"
    /\ blueprints = <<>> /\ amounts = <<>> /\ zone_masks = <<>>
    /\ buildings_to_place = <<>> /\ bidx = 0
    /\ placed_buildings = <<>> /\ building_mask = <<>>

\* State on entry to the loop of line 93.
InitPlace ==
    /\ place_pc = "loop"
    /\ blueprints \in {Catalog, <<Catalog[3], Catalog[2], Catalog[1]>>}
    /\ amounts \in [CatalogNames -> 0 .. MaxAmount]
    /\ zone_masks \in [{"zero", "land"} -> FixtureMasks]
    /\ buildings_to_place = Expand(blueprints, amounts)
    /\ bidx = 0
    /\ placed_buildings = <<>>
    /\ building_mask = EmptyMask

\* One iteration of the placement loop.  When the key lambda raises TypeError
\* place_buildings does not return.
PlaceBuilding ==
    /\ place_pc = "loop"
    /\ bidx < Len(buildings_to_place)
    /\ IF KeyRaises(zone_masks[buildings_to_place[bidx + 1].location])
       THEN /\ place_pc' = "error"
            /\ UNCHANGED <<bidx, placed_buildings, building_mask>>
       ELSE /\ LET r == PlaceOne(buildings_to_place[bidx + 1], zone_masks,
                                 placed_buildings, building_mask)
               IN  /\ placed_buildings' = r[1]
                   /\ building_mask' = r[2]
            /\ bidx' = bidx + 1
            /\ place_pc' = place_pc
    /\ UNCHANGED <<blueprints, amounts, zone_masks, buildings_to_place>>
    /\ UNCHANGED <<roadVars, astarVars>>

\* Line 118.
PlaceReturn ==
    /\ place_pc = "loop"
    /\ bidx = Len(buildings_to_place)
    /\ place_pc' = "done"
    /\ UNCHANGED <<blueprints, amounts, zone_masks, buildings_to_place, bidx,
                   placed_buildings, building_mask>>
    /\ UNCHANGED <<roadVars, astarVars>>

\* place_buildings as a function of the expanded queue (lines 91-118).
RECURSIVE PlaceAll(_, _, _, _)
PlaceAll(q, masks, placed, bmask) ==
    IF q = <<>> THEN <<placed, bmask>>
    ELSE LET r == PlaceOne(Head(q), masks, placed, bmask)
         IN  PlaceAll(Tail(q), masks, r[1], r[2])

BlueprintOf(nametag) == CHOOSE b \in {Catalog[k] : k \in 1 .. Len(Catalog)} : b.name = nametag

Separated(r1, r2) ==
    \/ r1[1] + r1[3] + 10 <= r2[1]
    \/ r2[1] + r2[3] + 10 <= r1[1]
    \/ r1[2] + r1[4] + 10 <= r2[2]
    \/ r2[2] + r2[4] + 10 <= r1[2]

\* C1: after every iteration of the placement loop, every two distinct entries of
\* the placed list are separated by the clearance of 10 pixels on at least one
\* axis, also when they were placed into different zone masks.
C1_PairwiseClearance ==
    \A i, j \in 1 .. Len(placed_buildings) :
        i # j => Separated(placed_buildings[i].rect, placed_buildings[j].rect)

\* Two buildings have been placed whose zone masks differ.
C1_Witness ==
    \E i, j \in 1 .. Len(placed_buildings) :
        /\ i < j
        /\ BlueprintOf(placed_buildings[i].nametag).location
             # BlueprintOf(placed_buildings[j].nametag).location
        /\ zone_masks["zero"] # zone_masks["land"]

HasPixels(building) == ArgWhere(zone_masks[building.location]) # {}

\* C6: a queued building whose zone mask has no occupied pixel raises no error
\* and is skipped, and the rest of the queue is processed as if it had not been
\* queued: after every iteration the placed list and the occupancy mask are
\* those of the run over the processed queue with such buildings removed.
C6_EmptyZoneSkipped ==
    /\ place_pc # "error"
    /\ <<placed_buildings, building_mask>> =
          PlaceAll(SelectSeq(SubSeq(buildings_to_place, 1, bidx), HasPixels),
                   zone_masks, <<>>, EmptyMask)

\* The run ended, its first queued building had an empty zone mask, and a later
\* one was placed.
C6_Witness ==
    /\ place_pc = "done"
    /\ Len(buildings_to_place) >= 2
    /\ ~HasPixels(buildings_to_place[1])
    /\ get_mask_centroid(zone_masks[buildings_to_place[1].location]) = None
    /\ Len(placed_buildings) >= 1

\* Positions <<x, y>> feasible for the k-th placed building when it was placed.
FeasibleAt(k) ==
    LET b == BlueprintOf(placed_buildings[k].nametag)
        mask == zone_masks[b.location]
    IN  { <<c[2], c[1]>> : c \in
            { c \in PlaceCells :
                /\ c[2] + b.size[1] <= PlaceCols
                /\ c[1] + b.size[2] <= PlaceRows
                /\ \A yy \in c[1] .. c[1] + b.size[2] - 1 :
                     \A xx \in c[2] .. c[2] + b.size[1] - 1 : mask[<<yy, xx>>] > 0
                /\ \A i \in 1 .. k - 1 :
                     Separated(<<c[2], c[1], b.size[1], b.size[2]>>,
                               placed_buildings[i].rect) } }

DistSq(p, q) == (p[1] - q[1]) * (p[1] - q[1]) + (p[2] - q[2]) * (p[2] - q[2])

\* C8: every placed building sits at a position <<x, y>> that, among the
\* positions feasible when it was placed, has the least Euclidean distance to
\* the centroid <<cx, cy>> of its zone mask.
C8_NearestToCentroid ==
    \A k \in 1 .. Len(placed_buildings) :
        LET r == placed_buildings[k].rect
            cen == get_mask_centroid(zone_masks[BlueprintOf(placed_buildings[k].nametag).location])
        IN  \A p \in FeasibleAt(k) : DistSq(<<r[1], r[2]>>, cen) <= DistSq(p, cen)


----------------------------------------------------------------------------
(* Road topology generator                                                 *)

\* Extent of the grid the fixture buildings of generate_path_tree stand on.
TreeCols == 3
TreeRows == 2
\* Most buildings in a fixture list, and the largest max_length tried.
MaxBuildings == 4
MaxLen == 2

\* max_length = None
NoMax == 0 - 1

\* Line 197: the center of each rect <<x, y, w, h>>.
building_centers(bs) ==
    [k \in 1 .. Len(bs) |-> <<bs[k].rect[1] + bs[k].rect[3] \div 2,
                              bs[k].rect[2] + bs[k].rect[4] \div 2>>]

Det3(a, b, c) ==
    a[1] * (b[2] * c[3] - b[3] * c[2])
  - a[2] * (b[1] * c[3] - b[3] * c[1])
  + a[3] * (b[1] * c[2] - b[2] * c[1])

Sq(p) == p[1] * p[1] + p[2] * p[2]

\* The determinants of lines 168-190.
CircD(p1, p2, p3)  == Det3(<<p1[1], p1[2], 1>>, <<p2[1], p2[2], 1>>, <<p3[1], p3[2], 1>>)
CircA1(p1, p2, p3) == Det3(<<Sq(p1), p1[2], 1>>, <<Sq(p2), p2[2], 1>>, <<Sq(p3), p3[2], 1>>)
CircA2(p1, p2, p3) == Det3(<<Sq(p1), p1[1], 1>>, <<Sq(p2), p2[1], 1>>, <<Sq(p3), p3[1], 1>>)
CircA3(p1, p2, p3) == Det3(<<Sq(p1), p1[1], p1[2]>>, <<Sq(p2), p2[1], p2[2]>>,
                           <<Sq(p3), p3[1], p3[2]>>)

\* Line 158 for the circumcircle get_circumcircle returns: center
\* (A1 / 2D, -A2 / 2D), radius^2 = A3 / D + x^2 + y^2, both sides times 4 D^2.
InsideCircumcircle(pm, p1, p2, p3) ==
    LET D  == CircD(p1, p2, p3)
        A1 == CircA1(p1, p2, p3)
        A2 == CircA2(p1, p2, p3)
        A3 == CircA3(p1, p2, p3)
    IN  (2 * D * pm[1] - A1) * (2 * D * pm[1] - A1) + (2 * D * pm[2] + A2) * (2 * D * pm[2] + A2)
          < 4 * D * A3 + A1 * A1 + A2 * A2

\* Lines 148-164: the triples whose circumcircle holds no other point.
ValidTriples(points) ==
    { t \in (DOMAIN points) \X (DOMAIN points) \X (DOMAIN points) :
        /\ t[1] < t[2] /\ t[2] < t[3]
        /\ CircD(points[t[1]], points[t[2]], points[t[3]]) # 0
        /\ \A m \in DOMAIN points :
             (m # t[1] /\ m # t[2] /\ m # t[3])
                => ~InsideCircumcircle(points[m], points[t[1]], points[t[2]], points[t[3]]) }

\* The edge set custom_delaunay returns; indices count from 1 here.
custom_delaunay(points) ==
    UNION { { <<t[1], t[2]>>, <<t[2], t[3]>>, <<t[3], t[1]>> } : t \in ValidTriples(points) }

\* Squared weight of the graph edge between nodes u and v (line 209).
LenSq(points, e) ==
    LET u == CHOOSE u \in e : TRUE
        v == CHOOSE v \in e : v # u
    IN  DistSq(points[u], points[v])

\* Line 210.
WithinMax(d2, ml) == ml = NoMax \/ d2 <= ml * ml

\* Lines 206-211: the undirected graph, as a set of two-element sets of nodes.
FilteredGraph(points, ml) ==
    { {e[1], e[2]} : e \in {e \in custom_delaunay(points) :
                              WithinMax(DistSq(points[e[1]], points[e[2]]), ml)} }

RECURSIVE ReachFrom(_, _)
ReachFrom(E, S) ==
    LET S2 == S \cup UNION {e \in E : e \cap S # {}}
    IN  IF S2 = S THEN S ELSE ReachFrom(E, S2)

\* Kruskal taking the heaviest edge first (mutant).
NextEdgesHeaviest(points, rest) ==
    {e \in rest : \A f \in rest : LenSq(points, e) >= LenSq(points, f)}

\* The edges that may come next in Kruskal's weight-sorted edge list: the order
\* among equal weights follows the iteration order of a Python set.
NextEdges(points, rest) ==
    {e \in rest : \A f \in rest : LenSq(points, e) <= LenSq(points, f)}

\* networkx's Kruskal (line 214): every forest it can return.
RECURSIVE KruskalForests(_, _, _)
KruskalForests(points, rest, forest) ==
    IF rest = {} THEN {forest}
    ELSE UNION { KruskalForests(points, rest \ {e},
                     IF (ReachFrom(forest, {CHOOSE u \in e : TRUE}) \cap e) = e
                     THEN forest ELSE forest \cup {e})
                 : e \in NextEdges(points, rest) }

\* generate_path_tree: the possible edge sets of the returned list.
PathTrees(bs, ml) ==
    KruskalForests(building_centers(bs), FilteredGraph(building_centers(bs), ml), {})

TreeSites == (0 .. TreeCols - 1) \X (0 .. TreeRows - 1)

RasterBefore(p, q) == p[2] < q[2] \/ (p[2] = q[2] /\ p[1] < q[1])

\* Fixture lists: up to MaxBuildings unit footprints on distinct sites, listed in
\* raster order (nothing above depends on the order of the list).
RECURSIVE SiteLists(_)
SiteLists(n) ==
    IF n = 0 THEN {<<>>}
    ELSE LET shorter == SiteLists(n - 1)
         IN  shorter \cup
             { Append(l, [nametag |-> "hut", rect |-> <<p[1], p[2], 1, 1>>]) :
                 <<l, p>> \in { lp \in {l \in shorter : Len(l) = n - 1} \X TreeSites :
                                  lp[1] = <<>> \/
                                  RasterBefore(<<lp[1][Len(lp[1])].rect[1],
                                                 lp[1][Len(lp[1])].rect[2]>>, lp[2]) } }

InitTree ==
    /\ road_pc = "tree"
    /\ buildings \in SiteLists(MaxBuildings)
    /\ max_length \in {NoMax} \cup (1 .. MaxLen)
    /\ centers = <<>> /\ paths = {}
    /\ occupancy = <<>> /\ water_mask = <<>>
    /\ eidx = 0 /\ handed = <<>> /\ path_points = <<>> /\ bridge_points = <<>>

\* A call of generate_path_tree(buildings, max_length).
GeneratePathTree ==
    /\ road_pc = "tree"
    /\ centers' = building_centers(buildings)
    /\ paths' \in PathTrees(buildings, max_length)
    /\ road_pc' = "returned"
    /\ UNCHANGED <<buildings, max_length, occupancy, water_mask, eidx, handed,
                   path_points, bridge_points>>
    /\ UNCHANGED <<placeVars, astarVars>>

Nodes == DOMAIN building_centers(buildings)

Acyclic(E) ==
    \A e \in E : (ReachFrom(E \ {e}, {CHOOSE u \in e : TRUE}) \cap e) # e

Components(E) == {ReachFrom(E, {u}) : u \in Nodes}

\* The graph the spanning tree is taken of: the Delaunay edges of length <= max_length.
ClaimGraph ==
    { {e[1], e[2]} : e \in
        { e \in custom_delaunay(building_centers(buildings)) :
            \/ max_length = NoMax
            \/ DistSq(building_centers(buildings)[e[1]], building_centers(buildings)[e[2]])
                 <= max_length * max_length } }

SpanningForests(G) ==
    {F \in SUBSET G : Acyclic(F) /\ Components(F) = Components(G)}

\* Lengths in thousandths of a pixel, rounded down.
LenMilli ==
    [d2 \in 0 .. (TreeCols * TreeCols + TreeRows * TreeRows) |->
        CHOOSE r \in 0 .. 1000 * (TreeCols + TreeRows) :
            r * r <= d2 * 1000000 /\ (r + 1) * (r + 1) > d2 * 1000000]

WeightLow(E) ==
    SumFn([e \in E |-> LenMilli[LenSq(building_centers(buildings), e)]], E)

WeightHigh(E) ==
    SumFn([e \in E |-> LenMilli[LenSq(building_centers(buildings), e)] + 1], E)

\* The k-th lightest edge of E is no heavier than the k-th lightest edge of F:
\* for every length, E has at least as many edges that short as F has.
Dominates(E, F) ==
    \A d2 \in {LenSq(building_centers(buildings), f) : f \in F} :
        Cardinality({e \in E : LenSq(building_centers(buildings), e) <= d2})
          >= Cardinality({f \in F : LenSq(building_centers(buildings), f) <= d2})

\* C2: the edges generate_path_tree returns form a forest over the building
\* centers with (#nodes - #connected components) edges of the graph of Delaunay
\* edges no longer than max_length, and no spanning forest of that graph weighs
\* less (edge by edge in order of length, hence in total Euclidean length).
C2_MinimumSpanningForest ==
    road_pc = "returned" =>
        /\ paths \subseteq ClaimGraph
        /\ Acyclic(paths)
        /\ Cardinality(paths) = Cardinality(Nodes) - Cardinality(Components(ClaimGraph))
        /\ \A F \in SpanningForests(ClaimGraph) :
              /\ Cardinality(F) = Cardinality(paths)
              /\ Dominates(paths, F)
              /\ WeightLow(paths) <= WeightHigh(F)

\* A forest of two or more edges returned under a max_length, from a graph
\* that has a cycle and a strictly heavier spanning forest.
C2_Witness ==
    /\ road_pc = "returned"
    /\ max_length # NoMax
    /\ Cardinality(paths) >= 2
    /\ ~Acyclic(ClaimGraph)
    /\ \E F \in SpanningForests(ClaimGraph) : WeightLow(F) > WeightHigh(paths)

\* C5: with no max_length and n >= 2 buildings with pairwise distinct centers,
\* the returned edges are a spanning tree: n - 1 edges connecting every center
\* to every other.
C5_SpanningTree ==
    ( /\ road_pc = "returned"
      /\ max_length = NoMax
      /\ Len(buildings) >= 2
      /\ \A i, j \in Nodes : i # j => centers[i] # centers[j] )
    => /\ Cardinality(paths) = Len(buildings) - 1
       /\ \A u \in Nodes : ReachFrom(paths, {u}) = Nodes

----------------------------------------------------------------------------
(* Cost-weighted pathfinder                                                *)

\* Raster extent of the pathfinding fixtures (rows, cols = masks["zero"].shape).
AstarCols == 3
AstarRows == 3

\* float('inf'), and non-negative float arithmetic with it.
Inf == 1000 * 1000 * 1000
Add(a, b) == IF a = Inf \/ b = Inf THEN Inf ELSE a + b
\* (0 * inf, which is nan, does not arise: no fixture multiplier is inf)
Mul(a, b) == IF a = Inf \/ b = Inf THEN Inf ELSE a * b

\* Step costs in thousandths (line 234 and line 268).
D == 1000
D2 == 1414

AstarCells == (0 .. AstarCols - 1) \X (0 .. AstarRows - 1)     \* <<x, y>>

\* Lines 228-230: cost_map[y][x], indexed here <<x, y>>.
RECURSIVE CostAt(_, _, _, _)
CostAt(masks, cost_multipliers, names, c) ==
    IF names = {} THEN 0
    ELSE LET name == CHOOSE name \in names : TRUE
         IN  Add(CostAt(masks, cost_multipliers, names \ {name}, c),
                 Mul(masks[name][c], cost_multipliers[name]))

CostMap(masks, cost_multipliers) ==
    [c \in AstarCells |-> CostAt(masks, cost_multipliers, DOMAIN masks, c)]

\* Lines 233-236.
heuristic(a, b) ==
    LET dx == Abs(a[1] - b[1])
        dy == Abs(a[2] - b[2])
    IN  D * (dx + dy) + (D2 - 2 * D) * Min2(dx, dy)

directions ==
    { <<1, 0>>, <<-1, 0>>, <<0, 1>>, <<0, -1>>,
      <<1, 1>>, <<1, -1>>, <<-1, 1>>, <<-1, -1>> }

\* Line 266.
InBounds(n) == 0 <= n[1] /\ n[1] < AstarCols /\ 0 <= n[2] /\ n[2] < AstarRows

\* Line 268.
BaseCost(d) == IF d \in {<<1, 0>>, <<-1, 0>>, <<0, 1>>, <<0, -1>>} THEN D ELSE D2

\* Lines 263-271: new_cost for the step from current to its neighbor n.
NewCost(cm, cst, current, n) ==
    Add(cst[current], Mul(BaseCost(<<n[1] - current[1], n[2] - current[2]>>), cm[n]))

\* Line 274.
Improves(cst, n, new_cost) == n \notin DOMAIN cst \/ new_cost < cst[n]

\* The neighbors that lines 262-278 update.
Updated(cm, cst, current) ==
    { n \in {<<current[1] + d[1], current[2] + d[2]>> : d \in directions} :
        InBounds(n) /\ Improves(cst, n, NewCost(cm, cst, current, n)) }

\* queue.get(): the least (priority, (x, y)) tuple.
TupleLess(e, f) ==
    \/ e[1] < f[1]
    \/ e[1] = f[1] /\ (e[2] < f[2] \/ (e[2] = f[2] /\ e[3] < f[3]))

QueueGet(q) == CHOOSE e \in q : \A f \in q \ {e} : TupleLess(e, f)

\* Lines 251 and 262-278 for the popped entry e: the search state after the
\* for loop.
Expanded(cm, gl, st, e) ==
    LET current == <<e[2], e[3]>>
        upd == Updated(cm, st.costs, current)
    IN  [ queue |-> (st.queue \ {e}) \cup
                    { <<Add(NewCost(cm, st.costs, current, n), heuristic(n, gl)), n[1], n[2]>> :
                        n \in upd },
          costs |-> [n \in upd |-> NewCost(cm, st.costs, current, n)] @@ st.costs,
          came_from |-> [n \in upd |-> current] @@ st.came_from ]

\* Lines 255-258 without the reversal of line 259: the path from current back
\* to start (mutant).
RECURSIVE PathToUnreversed(_, _)
PathToUnreversed(cf, current) ==
    IF current = None THEN <<>> ELSE <<current>> \o PathToUnreversed(cf, cf[current])

\* Lines 255-259: the path from start to current, already reversed.
RECURSIVE PathTo(_, _)
PathTo(cf, current) ==
    IF current = None THEN <<>> ELSE Append(PathTo(cf, cf[current]), current)

\* Lines 246-248.
SearchInit(st) ==
    [ queue |-> {<<0, st[1], st[2]>>},
      costs |-> [n \in {st} |-> 0],
      came_from |-> [n \in {st} |-> None] ]

\* astar as a function: the returned path, or None (lines 245-280).
RECURSIVE Search(_, _, _)
Search(cm, gl, st) ==
    IF st.queue = {} THEN None
    ELSE LET e == QueueGet(st.queue)
             current == <<e[2], e[3]>>
         IN  IF current = gl THEN PathTo(st.came_from, current)
             ELSE Search(cm, gl, Expanded(cm, gl, st, e))

astar(st, gl, masks, cost_multipliers) ==
    Search(CostMap(masks, cost_multipliers), gl, SearchInit(st))

\* Fixtures: the "zero" mask is all ones; the "water" mask is 0 outside the
\* middle column and 0, 1 or inf (an impassable cell) inside it.
MidCol == AstarCols \div 2

ZeroMask == [c \in AstarCells |-> 1]

WaterMasks ==
    { [c \in AstarCells |-> IF c[1] = MidCol THEN col[c[2]] ELSE 0] :
        col \in [0 .. AstarRows - 1 -> {0, 1, Inf}] }

Starts == {<<0, y>> : y \in 0 .. AstarRows - 1} \cup {<<0 - 1, 0>>}
Goals  == {<<AstarCols - 1, y>> : y \in 0 .. AstarRows - 1} \cup {<<AstarCols, 0>>}

\* State on entry to the loop of line 250.
InitAstar ==
    /\ astar_pc = "search"
    /\ start \in Starts
    /\ goal \in Goals \cup {start}
    /\ \E water \in WaterMasks, m0 \in {0, 1}, mw \in {1, 2} :
          cost_map = CostMap([zero |-> ZeroMask, water |-> water],
                             [zero |-> m0, water |-> mw])
    /\ queue = SearchInit(start).queue
    /\ costs = SearchInit(start).costs
    /\ came_from = SearchInit(start).came_from
    /\ popped = <<>>
    /\ result = <<>>

\* One iteration of the while loop that pops a position other than the goal.
AstarExpand ==
    /\ astar_pc = "search"
    /\ \E e \in queue :
          /\ e = QueueGet(queue)
          /\ <<e[2], e[3]>> # goal
          /\ \E st \in { Expanded(cost_map, goal,
                           [queue |-> queue, costs |-> costs, came_from |-> came_from],
                           e) } :
                /\ queue' = st.queue
                /\ costs' = st.costs
                /\ came_from' = st.came_from
          /\ popped' = Append(popped, <<e[2], e[3]>>)
    /\ UNCHANGED <<astar_pc, start, goal, cost_map, result>>
    /\ UNCHANGED <<placeVars, roadVars>>

\* The iteration that pops the goal (lines 254-259).
AstarReturnPath ==
    /\ astar_pc = "search"
    /\ \E e \in queue :
          /\ e = QueueGet(queue)
          /\ <<e[2], e[3]>> = goal
          /\ queue' = queue \ {e}
          /\ popped' = Append(popped, goal)
          /\ result' = PathTo(came_from, goal)
    /\ astar_pc' = "done"
    /\ UNCHANGED <<start, goal, cost_map, costs, came_from>>
    /\ UNCHANGED <<placeVars, roadVars>>

\* Line 280.
AstarReturnNone ==
    /\ astar_pc = "search"
    /\ queue = {}
    /\ result' = None
    /\ astar_pc' = "done"
    /\ UNCHANGED <<start, goal, cost_map, queue, costs, came_from, popped>>
    /\ UNCHANGED <<placeVars, roadVars>>

Adjacent(a, b) == <<b[1] - a[1], b[2] - a[2]>> \in directions

StepCost(a, b) == Mul(BaseCost(<<b[1] - a[1], b[2] - a[2]>>), cost_map[b])

\* Cumulative cost of a path: the sum of its steps' costs.
RECURSIVE PathCost(_)
PathCost(path) ==
    IF Len(path) <= 1 THEN 0
    ELSE Add(PathCost(SubSeq(path, 1, Len(path) - 1)),
             StepCost(path[Len(path) - 1], path[Len(path)]))

\* One round of relaxation of the least costs prev, cell by cell.
RECURSIVE Relaxed(_, _)
Relaxed(prev, cells) ==
    IF cells = {} THEN <<>>
    ELSE LET c == CHOOSE c \in cells : TRUE
             via == {Add(prev[a], StepCost(a, c)) : a \in {a \in AstarCells : Adjacent(a, c)}}
                    \cup {prev[c]}
         IN  (c :> (CHOOSE m \in via : \A v \in via : m <= v)) @@ Relaxed(prev, cells \ {c})

\* Least cost of a walk of at most k steps from start to each cell.
RECURSIVE Cheapest(_)
Cheapest(k) ==
    IF k = 0 THEN [c \in AstarCells |-> IF c = start THEN 0 ELSE Inf]
    ELSE Relaxed(Cheapest(k - 1), AstarCells)

MinCost == Cheapest(Cardinality(AstarCells) - 1)[goal]

IsPath(path) ==
    /\ path # None
    /\ Len(path) >= 1
    /\ path[1] = start /\ path[Len(path)] = goal
    /\ \A k \in 1 .. Len(path) - 1 : Adjacent(path[k], path[k + 1])

FiniteCosts == \A c \in AstarCells : cost_map[c] >= 0 /\ cost_map[c] < Inf

\* C3: with start and goal inside the grid and every cost-map cell a
\* non-negative finite number, the path astar returns costs the minimum over
\* all 8-connected paths from start to goal.
C3_ReturnsMinimumCost ==
    (astar_pc = "done" /\ InBounds(start) /\ InBounds(goal) /\ FiniteCosts)
        => IsPath(result) /\ PathCost(result) = MinCost

\* The cells reachable from start by steps that enter finite-cost cells only.
RECURSIVE FiniteReach(_)
FiniteReach(S) ==
    LET S2 == S \cup {c \in AstarCells : cost_map[c] < Inf /\ \E a \in S : Adjacent(a, c)}
    IN  IF S2 = S THEN S ELSE FiniteReach(S2)

\* C4: with start and goal inside the grid, when every path from start to goal
\* enters an infinite-cost cell astar returns None, never a path.
C4_BarrierNotFound ==
    (astar_pc = "done" /\ InBounds(start) /\ InBounds(goal) /\ goal \notin FiniteReach({start}))
        => result = None

\* C7: with start or goal outside the raster the call fails before any cell is
\* expanded: nothing is popped and neither a path nor None is returned.
C7_OutOfBoundsRejected ==
    (~InBounds(start) \/ ~InBounds(goal)) => (popped = <<>> /\ astar_pc # "done")

\* C10: on a grid of non-negative finite costs the search loop terminates; it
\* returns a path from start to goal at the first pop of the goal, and None
\* exactly when the open set is empty and the goal was never popped.
C10_Terminates ==
    /\ <>(FiniteCosts => astar_pc = "done")
    /\ []((FiniteCosts /\ astar_pc = "search")
             => \A k \in 1 .. Len(popped) : popped[k] # goal)
    /\ []((FiniteCosts /\ astar_pc = "done") =>
             IF result = None
             THEN queue = {} /\ \A k \in 1 .. Len(popped) : popped[k] # goal
             ELSE /\ IsPath(result)
                  /\ popped[Len(popped)] = goal
                  /\ \A k \in 1 .. Len(popped) - 1 : popped[k] # goal)

\* A finished search on finite costs in which a cell was popped twice: it went
\* back into the open set when a strictly cheaper cost to it was found.
C10_Witness ==
    /\ astar_pc = "done"
    /\ FiniteCosts
    /\ \E i, j \in 1 .. Len(popped) : i < j /\ popped[i] = popped[j]

----------------------------------------------------------------------------
(* Per-edge path generation (generate_path_points, resolution_factor = 1)  *)

\* Most buildings in a fixture list of generate_path_points.
MaxSites == 3

\* numpy indexing mask[y][x]: an index i of an axis of length n is valid for
\* -n <= i < n, and a negative one counts from the end.
IndexOk(p) ==
    /\ 0 - AstarCols <= p[1] /\ p[1] < AstarCols
    /\ 0 - AstarRows <= p[2] /\ p[2] < AstarRows

Wrapped(p) ==
    << IF p[1] < 0 THEN p[1] + AstarCols ELSE p[1],
       IF p[2] < 0 THEN p[2] + AstarRows ELSE p[2] >>

\* Line 285: np.round of a component dx / norm of the unit vector is its sign
\* when |dx| / norm > 1/2, that is 3 dx^2 > dy^2, and 0 otherwise.
RoundUnit(dx, dy) ==
    IF 3 * dx * dx > dy * dy THEN (IF dx > 0 THEN 1 ELSE 0 - 1) ELSE 0

\* Lines 283-285.
DirVector(p1, p2) ==
    << RoundUnit(p1[1] - p2[1], p1[2] - p2[2]), RoundUnit(p1[2] - p2[2], p1[1] - p2[1]) >>

\* Lines 288-291: the while loops; p moves by step while the mask is set at p.
\* ok is FALSE when the indexing raises IndexError.
RECURSIVE WalkOut(_, _, _)
WalkOut(p, step, mask) ==
    IF ~IndexOk(p) THEN [ok |-> FALSE, p |-> p]
    ELSE IF mask[Wrapped(p)] > 0 THEN WalkOut(<<p[1] + step[1], p[2] + step[2]>>, step, mask)
    ELSE [ok |-> TRUE, p |-> p]

\* get_connectors_from_centers.  For p1 = p2 the division by a zero norm makes
\* dir_vector the integer cast of nan; the call is taken to fail.
get_connectors_from_centers(p1, p2, mask) ==
    IF p1 = p2 THEN [ok |-> FALSE, p1 |-> p1, p2 |-> p2]
    ELSE LET dir == DirVector(p1, p2)
             w1 == WalkOut(p1, <<0 - dir[1], 0 - dir[2]>>, mask)
             w2 == WalkOut(p2, dir, mask)
         IN  [ok |-> w1.ok /\ w2.ok, p1 |-> w1.p, p2 |-> w2.p]

\* Lines 218-219 and 303: p1 and p2 are views of rows u and v of centers.
EdgeEndpoints(cs, u, v) == <<cs[u], cs[v]>>

PointMasks == [zero |-> ZeroMask, buildings |-> occupancy, water |-> water_mask]
PointMultipliers == [zero |-> 1, buildings |-> 5, water |-> 2]

\* Line 309: the points of a path that lie in the water mask.
WaterPoints(points) ==
    SelectSeq(points, LAMBDA q : water_mask[Wrapped(q)] > 0)

\* The occupancy mask place_buildings stamps for the footprints of bs.
Stamped(bs) ==
    [c \in AstarCells |->
        IF \E k \in 1 .. Len(bs) :
              /\ c[1] >= bs[k].rect[1] /\ c[1] < bs[k].rect[1] + bs[k].rect[3]
              /\ c[2] >= bs[k].rect[2] /\ c[2] < bs[k].rect[2] + bs[k].rect[4]
        THEN 1 ELSE 0]

\* Footprints that do not touch, not even at a corner.
Apart(r1, r2) ==
    \/ r1[1] + r1[3] + 1 <= r2[1] \/ r2[1] + r2[3] + 1 <= r1[1]
    \/ r1[2] + r1[4] + 1 <= r2[2] \/ r2[2] + r2[4] + 1 <= r1[2]

\* Fixture lists: up to MaxSites unit footprints that do not touch, in raster order.
RECURSIVE CellLists(_)
CellLists(n) ==
    IF n = 0 THEN {<<>>}
    ELSE LET shorter == CellLists(n - 1)
         IN  shorter \cup
             { Append(lp[1], [nametag |-> "hut", rect |-> <<lp[2][1], lp[2][2], 1, 1>>]) :
                 lp \in { lp \in {l \in shorter : Len(l) = n - 1} \X AstarCells :
                            /\ lp[1] = <<>> \/
                               RasterBefore(<<lp[1][Len(lp[1])].rect[1],
                                              lp[1][Len(lp[1])].rect[2]>>, lp[2])
                            /\ \A k \in 1 .. Len(lp[1]) :
                                  Apart(lp[1][k].rect, <<lp[2][1], lp[2][2], 1, 1>>) } }

\* State on entry to generate_path_points.
InitPoints ==
    /\ road_pc = "points"
    /\ buildings \in CellLists(MaxSites)
    /\ max_length = NoMax
    /\ centers = <<>> /\ paths = {}
    /\ occupancy = Stamped(buildings)
    /\ water_mask \in { [c \in AstarCells |-> 0],
                        [c \in AstarCells |-> IF c[1] = MidCol THEN 1 ELSE 0] }
    /\ eidx = 0 /\ handed = <<>> /\ path_points = <<>> /\ bridge_points = <<>>

\* Line 296.
PointsPathTree ==
    /\ road_pc = "points"
    /\ centers' = building_centers(buildings)
    /\ paths' \in PathTrees(buildings, max_length)
    /\ road_pc' = "edges"
    /\ UNCHANGED <<buildings, max_length, occupancy, water_mask, eidx, handed,
                   path_points, bridge_points>>
    /\ UNCHANGED <<placeVars, astarVars>>

Remaining == paths \ {{handed[k].u, handed[k].v} : k \in 1 .. Len(handed)}

\* One iteration of the loop of lines 303-309, for the next entry (p1, p2) of
\* the path tree; the order of the entries and of the two ends of an entry
\* follows networkx's edge order and is left open.  The walk writes the rows of
\* centers in place.  An IndexError in the walk, or iterating the None astar
\* returns (TypeError), ends the call.
PointsEdge ==
    /\ road_pc = "edges"
    /\ \E e \in Remaining : \E u \in e : \E v \in e \ {u} :
          \E ends \in {EdgeEndpoints(centers, u, v)} :
          \E con \in {get_connectors_from_centers(ends[1], ends[2], occupancy)} :
             IF ~con.ok
             THEN /\ road_pc' = "error"
                  /\ UNCHANGED <<centers, eidx, handed, path_points, bridge_points>>
             ELSE /\ centers' = [centers EXCEPT ![u] = con.p1, ![v] = con.p2]
                  /\ handed' = Append(handed, [u |-> u, v |-> v, p1 |-> con.p1, p2 |-> con.p2])
                  /\ eidx' = eidx + 1
                  /\ \E points \in {astar(con.p1, con.p2, PointMasks, PointMultipliers)} :
                        IF points = None
                        THEN /\ road_pc' = "error"
                             /\ UNCHANGED <<path_points, bridge_points>>
                        ELSE /\ path_points' = Append(path_points, points)
                             /\ bridge_points' = bridge_points \o WaterPoints(points)
                             /\ road_pc' = road_pc
    /\ UNCHANGED <<buildings, max_length, paths, occupancy, water_mask>>
    /\ UNCHANGED <<placeVars, astarVars>>

\* Line 311.
PointsReturn ==
    /\ road_pc = "edges"
    /\ Remaining = {}
    /\ road_pc' = "done"
    /\ UNCHANGED <<buildings, max_length, centers, paths, occupancy, water_mask, eidx,
                   handed, path_points, bridge_points>>
    /\ UNCHANGED <<placeVars, astarVars>>

\* The endpoint the walk yields for building u on the edge {u, v} when it
\* starts at u's own center.
OwnEndpoint(u, v) ==
    LET c == building_centers(buildings)
        dir == DirVector(c[u], c[v])
    IN  WalkOut(c[u], <<0 - dir[1], 0 - dir[2]>>, occupancy)

\* C9: each endpoint handed to the search for a tree edge comes from a walk
\* that starts at that building's own center and follows the center-to-center
\* direction of that edge, whatever edges were processed before.
C9_EndpointsFromOwnCenters ==
    \A k \in 1 .. Len(handed) :
        /\ OwnEndpoint(handed[k].u, handed[k].v).ok =>
              handed[k].p1 = OwnEndpoint(handed[k].u, handed[k].v).p
        /\ OwnEndpoint(handed[k].v, handed[k].u).ok =>
              handed[k].p2 = OwnEndpoint(handed[k].v, handed[k].u).p

InitRoadIdle ==
    /\ road_pc = "idle"
    /\ buildings = <<>> /\ max_length = 0 /\ centers = <<>> /\ paths = {}
    /\ occupancy = <<>> /\ water_mask = <<>>
    /\ eidx = 0 /\ handed = <<>> /\ path_points = <<>> /\ bridge_points = <<>>

InitAstarIdle ==
    /\ astar_pc = "idle"
    /\ start = <<>> /\ goal = <<>> /\ cost_map = <<>> /\ queue = {}
    /\ costs = <<>> /\ came_from = <<>> /\ popped = <<>> /\ result = <<>>

NextPlace == PlaceBuilding \/ PlaceReturn

InitSpecPlace == InitPlace /\ InitRoadIdle /\ InitAstarIdle

SpecPlace == InitSpecPlace /\ [][NextPlace]_vars

NextTree == GeneratePathTree

InitSpecTree == InitPlaceIdle /\ InitTree /\ InitAstarIdle

SpecTree == InitSpecTree /\ [][NextTree]_vars

NextAstar == AstarExpand \/ AstarReturnPath \/ AstarReturnNone

InitSpecAstar == InitPlaceIdle /\ InitRoadIdle /\ InitAstar

SpecAstar == InitSpecAstar /\ [][NextAstar]_vars

NextPoints == PointsPathTree \/ PointsEdge \/ PointsReturn

InitSpecPoints == InitPlaceIdle /\ InitPoints /\ InitAstarIdle

SpecPoints == InitSpecPoints /\ [][NextPoints]_vars

\* The loop of line 250 runs until it returns: every iteration is taken.
FairSpecAstar == SpecAstar /\ WF_vars(NextAstar)

====
